---- MODULE Spec2Model ----
(***************************************************************************)
(* Model of the month-view allocation calendar                             *)
(* (frontend/src/app/components/AllocationCalendar_old.tsx) and of the     *)
(* revenue summary card                                                    *)
(* (frontend/src/app/financial/revenue-tracking/components/Summaries.tsx). *)
(*                                                                         *)
(* The component is a function of its props (selectedDate, the four        *)
(* selection fields, selectedStatType, timesheet) plus the event handlers  *)
(* that call the props' setters.  A render pass follows every change of a  *)
(* prop; the render pass may itself call setSelectedStatType.              *)
(***************************************************************************)
EXTENDS Integers, Sequences, FiniteSets, TLC

VARIABLES
    selectedDate,      \* Date prop, as [year, month (0..11), day]
    selectedDay,       \* number | null
    selectedRow,       \* number | null
    selectedColumn,    \* number | null
    isAllSelected,     \* boolean
    selectedStatType,  \* StatType
    timesheet,         \* [byDate |-> sequence of per-date entries], optionally
                       \* with businessCalendar |-> [holidays |-> sequence]
    pc,                \* "render": a render pass is pending, "idle": the UI is on screen
    timezoneOffset,    \* minutes the browser's local time is ahead of UTC
    items,             \* SummaryCard's items prop
    sortConfig         \* SummaryCard's sortConfig state

vars == <<selectedDate, selectedDay, selectedRow, selectedColumn, isAllSelected,
          selectedStatType, timesheet, pc, timezoneOffset, items, sortConfig>>

selection == <<selectedDay, selectedRow, selectedColumn, isAllSelected>>

\* what no handler of the calendar touches
beyondCalendar == <<timezoneOffset, items, sortConfig>>

-----------------------------------------------------------------------------
(* Bounds of the exploration *)

\* longest timesheet.byDate list handed to the component
MaxEntries == 2
\* how far month navigation is followed before / after the month first shown
MaxMonthsBack == 1
MaxMonthsAhead == 2

-----------------------------------------------------------------------------
(* JavaScript values *)

\* null of the "number | null" selection props
Null == -1

\* key order of the totalHours object literal
StatOrder == <<"consulting", "handsOn", "squad", "internal">>

StatTypes == {StatOrder[k] : k \in 1..Len(StatOrder)}

ZeroHours == [consulting |-> 0, handsOn |-> 0, squad |-> 0, internal |-> 0]

\* useState<{key, direction}>({ key: "total", direction: "desc" })
InitialSortConfig == [key |-> "total", direction |-> "desc"]

-----------------------------------------------------------------------------
(* JavaScript Date: calendar fields of a local-time Date *)

IsLeapYear(y) == (y % 4 = 0 /\ y % 100 # 0) \/ y % 400 = 0

\* number of days of month m (0..11) of year y
DaysIn(y, m) ==
    IF m = 1 THEN (IF IsLeapYear(y) THEN 29 ELSE 28)
    ELSE IF m \in {3, 5, 8, 10} THEN 30 ELSE 31

\* new Date(y, m, d): month and day outside their ranges carry over
RECURSIVE NewDate(_, _, _)
NewDate(y, m, d) ==
    IF m < 0 \/ m > 11 THEN NewDate(y + (m \div 12), m % 12, d)
    ELSE IF d < 1 THEN
        (IF m = 0 THEN NewDate(y - 1, 11, d + DaysIn(y - 1, 11))
                  ELSE NewDate(y, m - 1, d + DaysIn(y, m - 1)))
    ELSE IF d > DaysIn(y, m) THEN
        (IF m = 11 THEN NewDate(y + 1, 0, d - DaysIn(y, m))
                   ELSE NewDate(y, m + 1, d - DaysIn(y, m)))
    ELSE [year |-> y, month |-> m, day |-> d]

\* date.setMonth(m)
SetMonth(date, m) == NewDate(date.year, m, date.day)

\* date.setDate(d)
SetDate(date, d) == NewDate(date.year, date.month, d)

\* days from 1970-01-01 to the in-range date y, m (0..11), d
DayNumber(y, m, d) ==
    LET yy  == IF m <= 1 THEN y - 1 ELSE y
        era == yy \div 400
        yoe == yy - era * 400
        mp  == IF m > 1 THEN m - 2 ELSE m + 10
        doy == (153 * mp + 2) \div 5 + d - 1
        doe == yoe * 365 + yoe \div 4 - yoe \div 100 + doy
    IN  era * 146097 + doe - 719468

\* date.getDay(): 0 = Sunday; 1970-01-01 was a Thursday
GetDay(date) == (DayNumber(date.year, date.month, date.day) + 4) % 7

\* `${getFullYear()}-${pad(getMonth() + 1)}-${pad(getDate())}`, the
\* "YYYY-MM-DD" key as its three numeric fields
FormatDate(date) == <<date.year, date.month + 1, date.day>>

-----------------------------------------------------------------------------
(* The timesheet prop *)

Entry(date, c, h, s, i) ==
    [date |-> date, totalConsultingHours |-> c, totalHandsOnHours |-> h,
     totalSquadHours |-> s, totalInternalHours |-> i]

\* entries a timesheet.byDate list is built from; an absent total*Hours field
\* reads as 0 in the code ("|| 0") and is written 0 here
EntryPool ==
    { Entry(<<2024, 3, 31>>, 2, 0, 0, 0),
      Entry(<<2024, 4, 1>>, 1, 1, 0, 0),
      Entry(<<2024, 4, 2>>, 0, 3, 0, 1),
      Entry(<<2024, 3, 31>>, 0, 0, 1, 0) }

Timesheets ==
    { [byDate |-> l] : l \in UNION { [1..n -> EntryPool] : n \in 0..MaxEntries } }

\* an element of timesheet.businessCalendar.holidays; date is the stored
\* "YYYY-MM-DD" string as its three numeric fields
Holiday(date, reason) == [date |-> date, reason |-> reason]

HolidayPool ==
    { Holiday(<<2024, 2, 29>>, "leap day"),
      Holiday(<<2024, 3, 29>>, "Good Friday"),
      Holiday(<<2024, 3, 31>>, "Easter") }

\* longest businessCalendar.holidays list handed to the component
MaxHolidays == 2

HolidayTimesheets ==
    { [byDate |-> <<>>, businessCalendar |-> [holidays |-> l]] :
        l \in UNION { [1..n -> HolidayPool] : n \in 0..MaxHolidays } }

\* browsers at UTC-3, UTC and UTC+1
TimezoneOffsets == {-3 * 60, 0, 60}

\* the date the parent first passes as selectedDate
StartDate == [year |-> 2024, month |-> 2, day |-> 15]

\* months since year 0 of the month a date lies in
MonthIndex(date) == date.year * 12 + date.month

-----------------------------------------------------------------------------
(* Render: derived values of AllocationCalendar *)

\* the total*Hours field of an entry that feeds category t
EntryHours(e) ==
    [consulting |-> e.totalConsultingHours, handsOn |-> e.totalHandsOnHours,
     squad |-> e.totalSquadHours, internal |-> e.totalInternalHours]

\* Array.prototype.reverse
Reverse(l) == [k \in 1..Len(l) |-> l[Len(l) + 1 - k]]

AddHours(a, b) == [t \in StatTypes |-> a[t] + b[t]]

\* timesheet.byDate.forEach(day => totalHours.x += day.totalXHours || 0)
RECURSIVE SumEntries(_, _)
SumEntries(l, k) ==
    IF k = 0 THEN ZeroHours ELSE AddHours(SumEntries(l, k - 1), EntryHours(l[k]))

totalHours == SumEntries(timesheet.byDate, Len(timesheet.byDate))

\* Object.entries(totalHours).filter(([_, hours]) => hours > 0).map(([type]) => type)
IsAvailable(t) == totalHours[t] > 0

availableStatTypes_Reversed == Reverse(SelectSeq(StatOrder, IsAvailable))

availableStatTypes == SelectSeq(StatOrder, IsAvailable)

Includes(l, x) == \E k \in 1..Len(l) : l[k] = x

\* timesheet.byDate.find(d => d.date === formattedDate), then "|| 0" per field
getHoursForDate(date) ==
    LET l == timesheet.byDate
        hits == {k \in 1..Len(l) : l[k].date = FormatDate(date)}
    IN  IF hits = {} THEN ZeroHours
        ELSE EntryHours(l[CHOOSE k \in hits : \A j \in hits : k <= j])

currentMonth == selectedDate.month
currentYear == selectedDate.year

firstDayOfMonth == NewDate(currentYear, currentMonth, 1)
lastDayOfMonth == NewDate(currentYear, currentMonth + 1, 0)

daysInMonth == lastDayOfMonth.day
startingDayOfWeek == GetDay(firstDayOfMonth)

totalDays == startingDayOfWeek + daysInMonth
\* Math.ceil(totalDays / 7)
weeksNeeded == IF totalDays % 7 = 0 THEN totalDays \div 7 ELSE totalDays \div 7 + 1
totalCells == weeksNeeded * 7

\* new Date(new Date(h.date).getTime() + 24*60*60*1000), read back with the
\* local getFullYear/getMonth/getDate: the date-only string parses as UTC
\* midnight, so the local clock shows timezoneOffset minutes past (or before)
\* midnight of the stored day, one day of milliseconds later
holidayDate(h) ==
    LET msPerDay == 24 * 60 * 60 * 1000
        msSinceLocalMidnight == msPerDay + timezoneOffset * 60 * 1000
    IN  NewDate(h.date[1], h.date[2] - 1, h.date[3] + (msSinceLocalMidnight \div msPerDay))

\* timesheet.businessCalendar?.holidays?.find(h => format(holidayDate) === formattedDate)
\* as the "!!holiday" the cell stores
isHoliday(date) ==
    IF "businessCalendar" \in DOMAIN timesheet
    THEN \E k \in 1..Len(timesheet.businessCalendar.holidays) :
            FormatDate(holidayDate(timesheet.businessCalendar.holidays[k])) = FormatDate(date)
    ELSE FALSE

DayData(d, ty, date) ==
    [day |-> d, type |-> ty, hours |-> getHoursForDate(date), isHoliday |-> isHoliday(date)]

previousMonthDays_Unreversed ==
    [k \in 1..startingDayOfWeek |->
        LET date == NewDate(currentYear, currentMonth, -(k - 1))
        IN  DayData(date.day, "prev", date)]

\* Array.from({length: startingDayOfWeek}, (_, i) => new Date(y, m, -i)).reverse()
previousMonthDays ==
    Reverse([k \in 1..startingDayOfWeek |->
        LET date == NewDate(currentYear, currentMonth, -(k - 1))
        IN  DayData(date.day, "prev", date)])

currentMonthDays ==
    [k \in 1..daysInMonth |->
        DayData(k, "current", NewDate(currentYear, currentMonth, k))]

remainingDays == totalCells - (Len(previousMonthDays) + Len(currentMonthDays))

nextMonthDays ==
    [k \in 1..remainingDays |->
        DayData(k, "next", NewDate(currentYear, currentMonth + 1, k))]

allDays == previousMonthDays \o currentMonthDays \o nextMonthDays

RECURSIVE WeekTotal_AllTypes(_, _)
WeekTotal_AllTypes(weekDays, k) ==
    IF k = 0 THEN ZeroHours
    ELSE AddHours(WeekTotal_AllTypes(weekDays, k - 1), weekDays[k].hours)

\* weekDays.forEach(({hours, type}) => { if (type === 'current') weekTotal += hours })
RECURSIVE WeekTotal(_, _)
WeekTotal(weekDays, k) ==
    IF k = 0 THEN ZeroHours
    ELSE IF weekDays[k].type = "current"
         THEN AddHours(WeekTotal(weekDays, k - 1), weekDays[k].hours)
         ELSE WeekTotal(weekDays, k - 1)

\* rows[weekIndex + 1] is the source's rows[weekIndex]: 7 day cells and the total cell
rows ==
    LET days == allDays
    IN  [w \in 1..weeksNeeded |->
            LET weekDays == SubSeq(days, (w - 1) * 7 + 1, w * 7)
            IN  weekDays \o <<[type |-> "total", hours |-> WeekTotal(weekDays, 7)]>>]

RECURSIVE ColumnTotal_CurrentOnly(_, _, _)
ColumnTotal_CurrentOnly(rs, index, w) ==
    IF w = 0 THEN ZeroHours
    ELSE IF rs[w][index].type = "current"
         THEN AddHours(ColumnTotal_CurrentOnly(rs, index, w - 1), rs[w][index].hours)
         ELSE ColumnTotal_CurrentOnly(rs, index, w - 1)

\* rows.forEach(week => week.forEach((day, index) => { if current or total: add }))
RECURSIVE ColumnTotal(_, _, _)
ColumnTotal(rs, index, w) ==
    IF w = 0 THEN ZeroHours
    ELSE IF rs[w][index].type \in {"current", "total"}
         THEN AddHours(ColumnTotal(rs, index, w - 1), rs[w][index].hours)
         ELSE ColumnTotal(rs, index, w - 1)

\* columnTotals[index + 1] is the source's columnTotals[index]
columnTotals == LET rs == rows IN [index \in 1..8 |-> ColumnTotal(rs, index, Len(rs))]

\* the day cell the source renders as rows[weekIndex][dayIndex]
Cell(weekIndex, dayIndex) == rows[weekIndex + 1][dayIndex + 1]

isSelected_AnyType(dayData) == selectedDay = dayData.day

\* const isSelected = 'day' in dayData && dayData.day !== undefined
\*   && selectedDay === dayData.day && (type and month of selectedDate agree);
\* every day cell of the grid has a day
isSelected(dayData) ==
    /\ selectedDay = dayData.day
    /\ \/ dayData.type = "current" /\ selectedDate.month = currentMonth
       \/ dayData.type = "prev" /\ selectedDate.month = currentMonth - 1
       \/ dayData.type = "next" /\ selectedDate.month = currentMonth + 1

isSelectable_AnyType(dayData) == dayData.hours[selectedStatType] > 0

\* DayCell: const isSelectable = type === 'current' && statHours > 0
isSelectable(dayData) ==
    dayData.type = "current" /\ dayData.hours[selectedStatType] > 0

-----------------------------------------------------------------------------
(* Event handlers of AllocationCalendar *)

handleDayClick_KeepsRow(day, type, rowIndex) ==
    /\ selectedDate' = NewDate(selectedDate.year, selectedDate.month, day)
    /\ selectedDay' = day
    /\ selectedRow' = selectedRow
    /\ selectedColumn' = Null
    /\ isAllSelected' = FALSE

handleDayClick(day, type, rowIndex) ==
    /\ selectedDate' =
          IF type = "prev"
          THEN SetDate(SetMonth(selectedDate, selectedDate.month - 1), day)
          ELSE IF type = "next"
          THEN SetDate(SetMonth(selectedDate, selectedDate.month + 1), day)
          ELSE NewDate(selectedDate.year, selectedDate.month, day)
    /\ selectedDay' = day
    /\ selectedRow' = Null
    /\ selectedColumn' = Null
    /\ isAllSelected' = FALSE

handleColumnSelect_NoAll(columnIndex) ==
    /\ selectedColumn' = columnIndex
    /\ selectedRow' = Null
    /\ selectedDay' = Null
    /\ isAllSelected' = FALSE

handleColumnSelect(columnIndex) ==
    IF columnIndex = 7
    THEN /\ isAllSelected' = TRUE
         /\ selectedColumn' = Null
         /\ selectedRow' = Null
         /\ selectedDay' = Null
    ELSE /\ selectedColumn' = columnIndex
         /\ selectedRow' = Null
         /\ selectedDay' = Null
         /\ isAllSelected' = FALSE

handleRowSelect_KeepsColumn(rowIndex) ==
    /\ selectedRow' = rowIndex
    /\ selectedColumn' = selectedColumn
    /\ selectedDay' = Null
    /\ isAllSelected' = FALSE

handleRowSelect(rowIndex) ==
    /\ selectedRow' = rowIndex
    /\ selectedColumn' = Null
    /\ selectedDay' = Null
    /\ isAllSelected' = FALSE

handleMonthChange(increment) ==
    /\ selectedDate' = SetMonth(selectedDate, selectedDate.month + increment)
    /\ selectedDay' = Null
    /\ selectedRow' = Null
    /\ selectedColumn' = Null
    /\ isAllSelected' = FALSE

handleStatTypeChange(newType) ==
    /\ selectedStatType' = newType
    /\ selectedDay' = Null
    /\ selectedRow' = Null
    /\ selectedColumn' = Null
    /\ isAllSelected' = FALSE

-----------------------------------------------------------------------------
(* Steps: the user's clicks, the parent's prop change, and the render pass *)

\* DayCell's onClick on the cell dayData of row weekIndex
DayCellOnClick(dayData, weekIndex) ==
    /\ pc = "idle"
    /\ IF isSelectable(dayData)
       THEN /\ handleDayClick(dayData.day, dayData.type, weekIndex)
            /\ pc' = "render"
       ELSE UNCHANGED <<selectedDate, selection, pc>>
    /\ UNCHANGED <<selectedStatType, timesheet>>
    /\ UNCHANGED beyondCalendar

DayCellClick ==
    \E rs \in {rows} :
        \E weekIndex \in 0..(Len(rs) - 1), dayIndex \in 0..6 :
            DayCellOnClick(rs[weekIndex + 1][dayIndex + 1], weekIndex)

\* WeekTotalCell's onClick: onSelect(index) with onSelect = handleRowSelect
WeekTotalOnClick_NextRow(weekIndex) ==
    /\ pc = "idle"
    /\ handleRowSelect(weekIndex + 1)
    /\ pc' = "render"
    /\ UNCHANGED <<selectedDate, selectedStatType, timesheet>>
    /\ UNCHANGED beyondCalendar

WeekTotalOnClick(weekIndex) ==
    /\ pc = "idle"
    /\ handleRowSelect(weekIndex)
    /\ pc' = "render"
    /\ UNCHANGED <<selectedDate, selectedStatType, timesheet>>
    /\ UNCHANGED beyondCalendar

WeekTotalClick == \E weekIndex \in 0..(weeksNeeded - 1) : WeekTotalOnClick(weekIndex)

\* onClick of a header cell and of a DayOfWeekTotalCell: handleColumnSelect(index)
ColumnOnClick(index) ==
    /\ pc = "idle"
    /\ handleColumnSelect(index)
    /\ pc' = "render"
    /\ UNCHANGED <<selectedDate, selectedStatType, timesheet>>
    /\ UNCHANGED beyondCalendar

\* the header row and the total row both map the 8 indices 0..7
ColumnClick == \E index \in 0..7 : ColumnOnClick(index)

InWindow(date) ==
    /\ MonthIndex(date) >= MonthIndex(StartDate) - MaxMonthsBack
    /\ MonthIndex(date) <= MonthIndex(StartDate) + MaxMonthsAhead

\* the two navigation buttons: handleMonthChange(-1) and handleMonthChange(1)
MonthButtonClick ==
    /\ pc = "idle"
    /\ \E increment \in {-1, 1} :
          /\ handleMonthChange(increment)
          /\ InWindow(selectedDate')
    /\ pc' = "render"
    /\ UNCHANGED <<selectedStatType, timesheet>>
    /\ UNCHANGED beyondCalendar

\* a TabsTrigger's onClick; only the available types have a tab
TabClick ==
    /\ pc = "idle"
    /\ \E k \in 1..Len(availableStatTypes) : handleStatTypeChange(availableStatTypes[k])
    /\ pc' = "render"
    /\ UNCHANGED <<selectedDate, timesheet>>
    /\ UNCHANGED beyondCalendar

\* the parent passes another timesheet
TimesheetChange ==
    /\ pc = "idle"
    /\ timesheet' \in Timesheets \ {timesheet}
    /\ pc' = "render"
    /\ UNCHANGED <<selectedDate, selection, selectedStatType>>
    /\ UNCHANGED beyondCalendar

\* the render pass finds selectedStatType unavailable and sets it; React
\* renders again with the new value
RenderSubstitute ==
    /\ pc = "render"
    /\ ~Includes(availableStatTypes, selectedStatType)
    /\ Len(availableStatTypes) > 0
    /\ selectedStatType' = availableStatTypes[1]
    /\ UNCHANGED <<selectedDate, selection, timesheet, pc>>
    /\ UNCHANGED beyondCalendar

\* the render pass sets no state and its output goes on screen
RenderCommit ==
    /\ pc = "render"
    /\ ~(~Includes(availableStatTypes, selectedStatType) /\ Len(availableStatTypes) > 0)
    /\ pc' = "idle"
    /\ UNCHANGED <<selectedDate, selection, selectedStatType, timesheet>>
    /\ UNCHANGED beyondCalendar

Init ==
    /\ selectedDate = StartDate
    /\ selectedDay = Null
    /\ selectedRow = Null
    /\ selectedColumn = Null
    /\ isAllSelected = FALSE
    /\ selectedStatType \in StatTypes
    /\ timesheet \in Timesheets
    /\ pc = "render"
    /\ timezoneOffset = 0
    /\ items = <<>>
    /\ sortConfig = InitialSortConfig

Next ==
    \/ DayCellClick
    \/ WeekTotalClick
    \/ ColumnClick
    \/ MonthButtonClick
    \/ TabClick
    \/ TimesheetChange
    \/ RenderSubstitute
    \/ RenderCommit

Spec == Init /\ [][Next]_vars

(* Month navigation alone, from January of MinGridYear to December of
   MaxGridYear with an empty timesheet: the grid of every month in between *)

MinGridYear == 2020
MaxGridYear == 2031

GridInit ==
    /\ selectedDate = [year |-> MinGridYear, month |-> 0, day |-> 1]
    /\ selectedDay = Null
    /\ selectedRow = Null
    /\ selectedColumn = Null
    /\ isAllSelected = FALSE
    /\ selectedStatType \in StatTypes
    /\ timesheet = [byDate |-> <<>>]
    /\ pc = "render"
    /\ timezoneOffset = 0
    /\ items = <<>>
    /\ sortConfig = InitialSortConfig

GridMonthButtonClick ==
    /\ pc = "idle"
    /\ \E increment \in {-1, 1} :
          /\ handleMonthChange(increment)
          /\ selectedDate'.year \in MinGridYear..MaxGridYear
    /\ pc' = "render"
    /\ UNCHANGED <<selectedStatType, timesheet>>
    /\ UNCHANGED beyondCalendar

GridNext == GridMonthButtonClick \/ RenderCommit

GridSpec == GridInit /\ [][GridNext]_vars

(* Month navigation over a timesheet that carries a business calendar, in
   a browser of each time zone *)

HolidayInit ==
    /\ selectedDate = StartDate
    /\ selectedDay = Null
    /\ selectedRow = Null
    /\ selectedColumn = Null
    /\ isAllSelected = FALSE
    /\ selectedStatType \in StatTypes
    /\ timesheet \in HolidayTimesheets
    /\ pc = "render"
    /\ timezoneOffset \in TimezoneOffsets
    /\ items = <<>>
    /\ sortConfig = InitialSortConfig

HolidayNext == MonthButtonClick \/ RenderCommit

HolidaySpec == HolidayInit /\ [][HolidayNext]_vars

\* a pending render pass always runs
FairSpec == Spec /\ WF_vars(RenderSubstitute) /\ WF_vars(RenderCommit)

-----------------------------------------------------------------------------
(* Selection model *)

NoSelection ==
    selectedDay = Null /\ selectedRow = Null /\ selectedColumn = Null /\ ~isAllSelected

\* C1: in every reachable state at most one of selectedDay # null,
\* selectedRow # null, selectedColumn # null and isAllSelected holds.
C1_MutuallyExclusive ==
    LET n(b) == IF b THEN 1 ELSE 0
    IN  n(selectedDay # Null) + n(selectedRow # Null)
          + n(selectedColumn # Null) + n(isAllSelected) <= 1

\* a row selection has replaced an earlier selection and is being rendered
C1_Witness ==
    selectedRow # Null /\ selectedColumn = Null /\ pc = "render"

\* C2: every step that changes selectedStatType (a tab click or the render
\* pass's substitution) or the displayed month ends with selectedDay,
\* selectedRow and selectedColumn null and isAllSelected false.
C2_SwitchResetsSelection ==
    [][(selectedStatType' # selectedStatType
          \/ MonthIndex(selectedDate') # MonthIndex(selectedDate))
       => (selectedDay' = Null /\ selectedRow' = Null
             /\ selectedColumn' = Null /\ isAllSelected' = FALSE)]_vars

\* C3 as stated: a click on any cell of type 'current', whatever its hours,
\* selects its day and clears row, column and all.
C3_AnyCurrentCellSelects ==
    pc = "idle" =>
    \A rs \in {rows} : \A weekIndex \in 0..(Len(rs) - 1), dayIndex \in 0..6 :
        LET dayData == rs[weekIndex + 1][dayIndex + 1]
        IN  dayData.type = "current" =>
            ~ENABLED (/\ DayCellOnClick(dayData, weekIndex)
                      /\ ~(selectedDay' = dayData.day /\ selectedRow' = Null
                             /\ selectedColumn' = Null /\ isAllSelected' = FALSE))

\* C3 amended: a click on a cell of type 'current' whose hours for the
\* selected category are greater than zero selects its day and clears row,
\* column and all; a click on a 'current' cell with zero hours for the
\* selected category leaves date, selection and category as they are.
C3_CurrentCellWithHoursSelects ==
    pc = "idle" =>
    \A rs \in {rows} : \A weekIndex \in 0..(Len(rs) - 1), dayIndex \in 0..6 :
        LET dayData == rs[weekIndex + 1][dayIndex + 1]
        IN  dayData.type = "current" =>
            ~ENABLED (/\ DayCellOnClick(dayData, weekIndex)
                      /\ ~(IF dayData.hours[selectedStatType] > 0
                           THEN selectedDay' = dayData.day /\ selectedRow' = Null
                                  /\ selectedColumn' = Null /\ isAllSelected' = FALSE
                           ELSE UNCHANGED <<selectedDate, selection, selectedStatType>>))

\* a current-month day other than the one selectedDate started on has been
\* selected and is being rendered
C3_Witness ==
    /\ pc = "render"
    /\ selectedDay # Null /\ selectedDay = selectedDate.day
    /\ selectedDay # StartDate.day
    /\ getHoursForDate(selectedDate)[selectedStatType] > 0

\* C4: a click on a day cell of type 'prev' or 'next' leaves selectedDate,
\* selectedDay, selectedRow, selectedColumn, isAllSelected and
\* selectedStatType unchanged.
C4_PaddingClickChangesNothing ==
    pc = "idle" =>
    \A rs \in {rows} : \A weekIndex \in 0..(Len(rs) - 1), dayIndex \in 0..6 :
        LET dayData == rs[weekIndex + 1][dayIndex + 1]
        IN  dayData.type \in {"prev", "next"} =>
            ~ENABLED (/\ DayCellOnClick(dayData, weekIndex)
                      /\ ~UNCHANGED <<selectedDate, selectedDay, selectedRow,
                                      selectedColumn, isAllSelected, selectedStatType>>)

\* the screen shows a 'prev' cell with hours for the selected category
\* while a row is selected
C4_Witness ==
    /\ pc = "idle" /\ selectedRow # Null
    /\ \E rs \in {rows} : \E w \in 1..Len(rs), i \in 1..7 :
          rs[w][i].type = "prev" /\ rs[w][i].hours[selectedStatType] > 0

\* C5: a click on the header or total-row cell with index i in 0..6 gives
\* selectedColumn = i with day and row null and isAllSelected false; index 7
\* gives isAllSelected with column, row and day null.
C5_ColumnOrAll ==
    pc = "idle" =>
    \A index \in 0..7 :
        ~ENABLED (/\ ColumnOnClick(index)
                  /\ ~(IF index = 7
                       THEN isAllSelected' = TRUE /\ selectedColumn' = Null
                              /\ selectedRow' = Null /\ selectedDay' = Null
                       ELSE selectedColumn' = index /\ selectedDay' = Null
                              /\ selectedRow' = Null /\ isAllSelected' = FALSE))

\* the Total header has been clicked and "all" is being rendered
C5_Witness ==
    isAllSelected /\ selectedColumn = Null /\ pc = "render"

\* C6: a click on the week-total cell of week w gives selectedRow = w with
\* day and column null and isAllSelected false, and leaves selectedDate and
\* selectedStatType unchanged.
C6_RowSelect ==
    pc = "idle" =>
    \A weekIndex \in 0..(weeksNeeded - 1) :
        ~ENABLED (/\ WeekTotalOnClick(weekIndex)
                  /\ ~(/\ selectedRow' = weekIndex /\ selectedDay' = Null
                       /\ selectedColumn' = Null /\ isAllSelected' = FALSE
                       /\ UNCHANGED <<selectedDate, selectedStatType>>))

\* the last week's total cell has been clicked and the row is on screen
C6_Witness ==
    selectedRow = weeksNeeded - 1 /\ selectedDay = Null /\ pc = "idle"

-----------------------------------------------------------------------------
(* Available categories *)

\* hours of category t summed over every entry of the timesheet
RECURSIVE TimesheetTotal(_, _, _)
TimesheetTotal(l, t, k) ==
    IF k = 0 THEN 0 ELSE TimesheetTotal(l, t, k - 1) + EntryHours(l[k])[t]

\* the categories with hours in the timesheet
AvailableSet ==
    {t \in StatTypes : TimesheetTotal(timesheet.byDate, t, Len(timesheet.byDate)) > 0}

\* position of a category in the fixed order consulting, handsOn, squad, internal
OrderOf(t) == CHOOSE k \in 1..Len(StatOrder) : StatOrder[k] = t

FirstAvailable == CHOOSE t \in AvailableSet : \A u \in AvailableSet : OrderOf(t) <= OrderOf(u)

\* C7: a category is in availableStatTypes only if the grid's grand total
\* for it, columnTotals[7], is greater than zero.
C7_AvailableOnlyWithGridTotal ==
    pc = "idle" =>
    \A cols \in {columnTotals} : \A k \in 1..Len(availableStatTypes) :
        cols[8][availableStatTypes[k]] > 0

\* C8: a render pass that finds the selected category unavailable while some
\* category is available sets selectedStatType to the first available one in
\* the order consulting, handsOn, squad, internal, and otherwise leaves it
\* unchanged; once the render pass has settled, selectedStatType is an
\* available category whenever one exists; and a pending render pass settles.
C8_Substitution ==
    /\ [](pc = "idle" /\ AvailableSet # {} => selectedStatType \in AvailableSet)
    /\ [][(pc = "render" /\ timesheet' = timesheet)
            => selectedStatType' =
                 IF selectedStatType \notin AvailableSet /\ AvailableSet # {}
                 THEN FirstAvailable ELSE selectedStatType]_vars
    /\ (pc = "render" ~> pc = "idle")

\* a new timesheet has made the selected category unavailable while two
\* later categories are available, and the render pass is about to run
C8_Witness ==
    /\ pc = "render" /\ ~NoSelection
    /\ selectedStatType = "consulting"
    /\ AvailableSet = {"handsOn", "internal"}

-----------------------------------------------------------------------------
(* Grid construction and totals *)

\* weekday (0 = Sunday) of day d of month m (1..12) of year y, by the
\* year/month-offset congruence
MonthOffset == <<0, 3, 2, 5, 0, 3, 5, 1, 4, 6, 2, 4>>

WeekdayOf(y, m, d) ==
    LET yy == IF m < 3 THEN y - 1 ELSE y
    IN  (yy + yy \div 4 - yy \div 100 + yy \div 400 + MonthOffset[m] + d) % 7

\* C9: with s the weekday of the 1st and n the days of the displayed month,
\* the grid has ceil((s+n)/7) rows of 7 day cells: s 'prev' cells holding the
\* last s days of the previous month in ascending order, the n 'current'
\* cells 1..n, then fewer than 7 'next' cells numbered from 1; day d is at row
\* floor((s+d-1)/7), column (s+d-1) mod 7; the first and the last row each
\* hold a current-month day.
C9_GridShape ==
    LET s == WeekdayOf(currentYear, currentMonth + 1, 1)
        n == DaysIn(currentYear, currentMonth)
        pm == IF currentMonth = 0 THEN DaysIn(currentYear - 1, 11)
              ELSE DaysIn(currentYear, currentMonth - 1)
    IN  \A rs \in {rows} :
          /\ 7 * (Len(rs) - 1) < s + n
          /\ s + n <= 7 * Len(rs)
          /\ 7 * Len(rs) - (s + n) < 7
          /\ \A w \in 1..Len(rs) :
                /\ Len(rs[w]) = 8
                /\ rs[w][8].type = "total"
                /\ \A i \in 1..7 :
                      LET p == (w - 1) * 7 + i
                      IN  IF p <= s
                          THEN rs[w][i].type = "prev" /\ rs[w][i].day = pm - s + p
                          ELSE IF p <= s + n
                          THEN rs[w][i].type = "current" /\ rs[w][i].day = p - s
                          ELSE rs[w][i].type = "next" /\ rs[w][i].day = p - s - n
          /\ \A d \in 1..n :
                LET c == rs[((s + d - 1) \div 7) + 1][((s + d - 1) % 7) + 1]
                IN  c.type = "current" /\ c.day = d
          /\ \E i \in 1..7 : rs[1][i].type = "current"
          /\ \E i \in 1..7 : rs[Len(rs)][i].type = "current"

\* a 31-day month that starts on a Saturday is on screen: six rows, six
\* 'prev' cells and 'next' cells after the 31st
C9_Witness ==
    /\ pc = "idle"
    /\ startingDayOfWeek = 6 /\ daysInMonth = 31
    /\ Len(rows) = 6
    /\ rows[1][6].type = "prev" /\ rows[6][3].type = "next"

\* hours of category t of the day cell c if it is a current-month cell
CurrentHours(c, t) == IF c.type = "current" THEN c.hours[t] ELSE 0

\* C10: in every week row and for every category, the hours of the 8th
\* (total) cell are the sum of that category's hours over the row's cells
\* of type 'current'; 'prev' and 'next' cells contribute nothing.
C10_WeekTotal ==
    \A rs \in {rows} : \A w \in 1..Len(rs), t \in StatTypes :
        rs[w][8].hours[t] =
            CurrentHours(rs[w][1], t) + CurrentHours(rs[w][2], t)
              + CurrentHours(rs[w][3], t) + CurrentHours(rs[w][4], t)
              + CurrentHours(rs[w][5], t) + CurrentHours(rs[w][6], t)
              + CurrentHours(rs[w][7], t)

\* a week on screen has a padding cell with hours in a category and a
\* non-zero week total in the same category
C10_Witness ==
    /\ pc = "idle"
    /\ \E rs \in {rows} : \E w \in 1..Len(rs), t \in StatTypes :
          /\ rs[w][8].hours[t] > 0
          /\ \E i \in 1..7 : rs[w][i].type # "current" /\ rs[w][i].hours[t] > 0

\* hours of category t that the timesheet holds for days 1..d of the
\* displayed month (the first entry of a date counts, as in getHoursForDate)
RECURSIVE MonthHours(_, _)
MonthHours(t, d) ==
    IF d = 0 THEN 0
    ELSE MonthHours(t, d - 1)
           + getHoursForDate([year |-> currentYear, month |-> currentMonth, day |-> d])[t]

\* the week totals of category t of the first w rows, added up
RECURSIVE WeekTotalsSum(_, _, _)
WeekTotalsSum(rs, t, w) ==
    IF w = 0 THEN 0 ELSE WeekTotalsSum(rs, t, w - 1) + rs[w][8].hours[t]

\* C11: per category, the grand total columnTotals[7] equals the sum of the
\* seven weekday column totals, the sum of the week totals, and the sum of
\* the category's hours over all days of the displayed month.
C11_TotalsReconcile ==
    \A rs \in {rows} : \A cols \in {columnTotals} : \A t \in StatTypes :
        /\ cols[8][t] = cols[1][t] + cols[2][t] + cols[3][t] + cols[4][t]
                          + cols[5][t] + cols[6][t] + cols[7][t]
        /\ cols[8][t] = MonthHours(t, DaysIn(currentYear, currentMonth))
        /\ cols[8][t] = WeekTotalsSum(rs, t, Len(rs))

\* the displayed month has hours of one category in two different weekday
\* columns
C11_Witness ==
    /\ pc = "idle"
    /\ \E cols \in {columnTotals} : \E t \in StatTypes, i, j \in 1..7 :
          i < j /\ cols[i][t] > 0 /\ cols[j][t] > 0 /\ cols[8][t] > cols[i][t]

-----------------------------------------------------------------------------
(* Month navigation and the selected day *)

\* C18: pressing next (previous) changes the displayed month to the calendar
\* month right after (before) the displayed one, whatever day of the month
\* selectedDate holds; so next followed by previous shows the first month again.
C18_NavigationByOneMonth ==
    pc = "idle" =>
    /\ \A increment \in {-1, 1} :
          ~ENABLED (/\ handleMonthChange(increment)
                    /\ pc' = "render"
                    /\ UNCHANGED <<selectedStatType, timesheet>>
                    /\ MonthIndex(selectedDate') # MonthIndex(selectedDate) + increment)
    /\ LET next == SetMonth(selectedDate, selectedDate.month + 1)
           back == SetMonth(next, next.month - 1)
       IN  MonthIndex(back) = MonthIndex(selectedDate)

\* C19: whenever a day is selected, selectedDate is that day of the
\* displayed month, exactly one day cell of the grid is marked isSelected,
\* it is a 'current' cell, and no 'prev' or 'next' cell is marked.
C19_SelectedDayConsistent ==
    selectedDay # Null =>
    /\ selectedDate.day = selectedDay
    /\ selectedDay \in 1..DaysIn(selectedDate.year, selectedDate.month)
    /\ \A rs \in {rows} :
          LET marked == {c \in (1..Len(rs)) \X (1..7) : isSelected(rs[c[1]][c[2]])}
          IN  /\ Cardinality(marked) = 1
              /\ \A c \in marked :
                    /\ rs[c[1]][c[2]].type = "current"
                    /\ rs[c[1]][c[2]].day = selectedDay

\* a day is selected whose number also appears on a padding cell of the grid
C19_Witness ==
    /\ pc = "idle" /\ selectedDay # Null
    /\ \E rs \in {rows} : \E w \in 1..Len(rs), i \in 1..7 :
          rs[w][i].type # "current" /\ rs[w][i].day = selectedDay

-----------------------------------------------------------------------------
(* Holidays *)

\* the calendar date a day cell of the grid stands for
CellDate(dayData) ==
    IF dayData.type = "prev" THEN NewDate(currentYear, currentMonth - 1, dayData.day)
    ELSE IF dayData.type = "next" THEN NewDate(currentYear, currentMonth + 1, dayData.day)
    ELSE NewDate(currentYear, currentMonth, dayData.day)

\* the calendar day after the stored date of holiday h
DayAfter(h) == NewDate(h.date[1], h.date[2] - 1, h.date[3] + 1)

StoredHolidays ==
    IF "businessCalendar" \in DOMAIN timesheet
    THEN {timesheet.businessCalendar.holidays[k] :
             k \in 1..Len(timesheet.businessCalendar.holidays)}
    ELSE {}

\* C12: in every time zone a day cell is marked as a holiday exactly when it
\* stands for the calendar day after the stored date of some holiday
C12_HolidayMarksDayAfter ==
    \A rs \in {rows} : \A w \in 1..Len(rs), i \in 1..7 :
        rs[w][i].isHoliday <=> \E h \in StoredHolidays : DayAfter(h) = CellDate(rs[w][i])
-----------------------------------------------------------------------------
(* SummaryCard (Summaries.tsx): the items prop *)

\* an element of items; name is the rank of the name string in the order of
\* the < and > operators on strings; the optional fee fields are absent from
\* the record when the item does not carry them
Item(name, regular, preContracted, total, fees) ==
    [name |-> name, regular |-> regular, preContracted |-> preContracted,
     total |-> total] @@ fees

\* items the short lists are built from: two that tie on total and on
\* consultingFee, one whose total is 0 while two of its fees are not, and one
\* with negative amounts that cancels the total of either of the first two
ItemPool ==
    { Item(2, 3, 0, 3, [consultingFee |-> 2, handsOnFee |-> 1]),
      Item(1, 1, 2, 3, [consultingFee |-> 2, squadFee |-> 1]),
      Item(3, 0, 0, 0, [consultingFee |-> 5, consultingPreFee |-> -5]),
      Item(2, -3, 0, -3, [handsOnFee |-> -1, squadFee |-> -2]) }

\* items the lists around the highlight threshold are built from
LongItemPool ==
    { Item(1, 1, 0, 1, [consultingFee |-> 1]),
      Item(2, -2, 0, -2, [consultingFee |-> 1, squadFee |-> -3]) }

\* const showHighlight = items.length > 10
HighlightMinItems == 10

\* longest list built from ItemPool
MaxShortItems == 3
\* how many items beyond HighlightMinItems the longest list has
MaxOverThreshold == 1

ItemLists ==
    UNION { [1..n -> ItemPool] : n \in 0..MaxShortItems }
    \cup UNION { [1..n -> LongItemPool] :
                   n \in HighlightMinItems..(HighlightMinItems + MaxOverThreshold) }

\* the keys the six sortable column headers pass to requestSort
SortKeys == {"name", "consultingFee", "consultingPreFee", "handsOnFee", "squadFee", "total"}

-----------------------------------------------------------------------------
(* JavaScript numbers: a quotient of integers as [num, den] with den > 0;
   den = 0 holds the values a division by zero gives: Infinity (num = 1),
   -Infinity (num = -1) and NaN (num = 0).  Amounts are integers, so sums are
   exact; quotients are kept exact where the program rounds them to a double *)

Number(n) == [num |-> n, den |-> 1]

NaN == [num |-> 0, den |-> 0]

IsNaN(x) == x.den = 0 /\ x.num = 0

IsFinite(x) == x.den # 0

Sgn(n) == IF n > 0 THEN 1 ELSE IF n < 0 THEN -1 ELSE 0

\* a / b for integers a and b
Divide(a, b) ==
    IF b = 0 THEN [num |-> Sgn(a), den |-> 0]
    ELSE IF b < 0 THEN [num |-> -a, den |-> -b]
    ELSE [num |-> a, den |-> b]

\* x - y
Minus(x, y) ==
    IF IsNaN(x) \/ IsNaN(y) THEN NaN
    ELSE IF ~IsFinite(x) /\ ~IsFinite(y) THEN (IF x.num = y.num THEN NaN ELSE x)
    ELSE IF ~IsFinite(x) THEN x
    ELSE IF ~IsFinite(y) THEN [num |-> -y.num, den |-> 0]
    ELSE IF x.den = y.den THEN [num |-> x.num - y.num, den |-> x.den]
    ELSE [num |-> x.num * y.den - y.num * x.den, den |-> x.den * y.den]

\* x * n for an integer n # 0
Times(x, n) ==
    IF IsFinite(x) THEN [num |-> x.num * n, den |-> x.den]
    ELSE [num |-> x.num * Sgn(n), den |-> 0]

\* x <= y; false when either side is NaN
LessOrEqual(x, y) ==
    IF IsNaN(x) \/ IsNaN(y) THEN FALSE
    ELSE IF ~IsFinite(x) THEN x.num < 0 \/ x = y
    ELSE IF ~IsFinite(y) THEN y.num > 0
    ELSE x.num * y.den <= y.num * x.den

\* x || 0: NaN and 0 are falsy
OrZero(x) == IF IsNaN(x) \/ (IsFinite(x) /\ x.num = 0) THEN Number(0) ELSE x

\* Math.round(x): the nearest integer, halves towards +Infinity; NaN and the
\* infinities are returned as they are
Round(x) ==
    IF IsFinite(x) THEN Number((2 * x.num + x.den) \div (2 * x.den)) ELSE x
-----------------------------------------------------------------------------
(* SummaryCard: render *)

\* item[key] ?? 0
Field(item, key) == IF key \in DOMAIN item THEN item[key] ELSE 0

compare_Ascending(a, b) ==
    LET aValue == Field(a, sortConfig.key)
        bValue == Field(b, sortConfig.key)
    IN  IF aValue < bValue THEN -1 ELSE IF aValue > bValue THEN 1 ELSE 0

\* the comparator handed to sort
compare(a, b) ==
    LET aValue == Field(a, sortConfig.key)
        bValue == Field(b, sortConfig.key)
    IN  IF aValue < bValue THEN 1 ELSE IF aValue > bValue THEN -1 ELSE 0

\* Array.prototype.sort is stable: the indices 1..k of items in the order the
\* sort leaves them in, each index placed behind every earlier one that the
\* comparator does not put after it
RECURSIVE SortIndices(_)
SortIndices(k) ==
    IF k = 0 THEN <<>>
    ELSE LET order == SortIndices(k - 1)
             p == Cardinality({j \in 1..Len(order) : compare(items[order[j]], items[k]) <= 0})
         IN  SubSeq(order, 1, p) \o <<k>> \o SubSeq(order, p + 1, Len(order))

\* sortedOrder[i] is the position in items of the i-th sorted item
sortedOrder == SortIndices(Len(items))

sortedItems == LET order == sortedOrder IN [i \in 1..Len(order) |-> items[order[i]]]

\* reduce((acc, item) => acc + (item[field] ?? 0), 0) over the first k items of l
RECURSIVE SumField(_, _, _)
SumField(l, field, k) ==
    IF k = 0 THEN 0 ELSE SumField(l, field, k - 1) + Field(l[k], field)

totals ==
    [field \in {"regular", "preContracted", "total", "consultingFee",
                "consultingPreFee", "handsOnFee", "squadFee"} |->
        SumField(items, field, Len(items))]

\* sortConfig.key === "name" || sortConfig.key === "slug" ? "total" : sortConfig.key
metric == IF sortConfig.key \in {"name", "slug"} THEN "total" ELSE sortConfig.key

cumulative_PreviousOnly(sorted, index) ==
    Divide(SumField(sorted, metric, index - 1), totals[metric])

\* (previousSum + currentValue) / totals[metric] for sorted[index]
cumulative(sorted, index) ==
    LET previousSum == SumField(sorted, metric, index - 1)
        currentValue == Field(sorted[index], metric)
    IN  Divide(previousSum + currentValue, totals[metric])

\* sortedItems.map((item, index) => ({ ...item, cumulative }))
cumulativeItems ==
    LET sorted == sortedItems
    IN  [index \in 1..Len(sorted) |->
            [cumulative |-> cumulative(sorted, index)] @@ sorted[index]]

\* undefined when the row is not significant, else the intensity of the
\* `rgb(${intensity}, ${intensity}, ${intensity})` string
getBackgroundColor(cumulativeOfRow, previousCumulative, isSignificant) ==
    IF ~isSignificant THEN [rgb |-> FALSE]
    ELSE LET contribution == Minus(cumulativeOfRow, OrZero(previousCumulative))
             intensity == Round(Minus(Number(230), Times(contribution, 100)))
         IN  [rgb |-> TRUE, intensity |-> intensity]

\* const threshold = 0.8
threshold == Divide(4, 5)

showHighlight_FromTen == Len(items) >= HighlightMinItems

showHighlight == Len(items) > HighlightMinItems

\* style.backgroundColor of the TableRow of cumulativeItems[index]
backgroundColor(rowItems, index) ==
    getBackgroundColor(rowItems[index].cumulative,
                       IF index > 1 THEN rowItems[index - 1].cumulative ELSE Number(0),
                       showHighlight /\ LessOrEqual(rowItems[index].cumulative, threshold))
\* the four fee columns between the name and the Total column
FeeColumns == {"consultingFee", "consultingPreFee", "handsOnFee", "squadFee"}

\* Intl.NumberFormat percent with one fraction digit of value / total: the
\* tenths of a percent the text shows (halves rounded away from zero), or the
\* non-finite quotient behind the texts "NaN" and "∞%"
formatPercent(value, total) ==
    LET quotient == Divide(value, total)
        magnitude == IF quotient.num < 0 THEN -quotient.num ELSE quotient.num
    IN  IF IsFinite(quotient)
        THEN Number(Sgn(quotient.num) * ((2 * 1000 * magnitude + quotient.den) \div (2 * quotient.den)))
        ELSE quotient

\* the percent elements the row of item renders: in each fee cell whose value
\* is not 0 the share of the row (top left) and of the column (bottom right),
\* in the total cell the share of the column when item.total is not 0
itemPercents(item) ==
    { [column |-> f, of |-> "row", denominator |-> item.total,
       text |-> formatPercent(Field(item, f), item.total)] :
         f \in {g \in FeeColumns : Field(item, g) # 0} }
    \cup
    { [column |-> f, of |-> "column", denominator |-> totals[f],
       text |-> formatPercent(Field(item, f), totals[f])] :
         f \in {g \in FeeColumns : Field(item, g) # 0} }
    \cup
    { [column |-> "total", of |-> "column", denominator |-> totals.total,
       text |-> formatPercent(item.total, totals.total)] : x \in {item.total} \ {0} }

\* the percent elements of the Total row: the share of totals.total in each
\* fee cell whose total is not 0
totalRowPercents ==
    { [column |-> f, of |-> "row", denominator |-> totals.total,
       text |-> formatPercent(totals[f], totals.total)] :
         f \in {g \in FeeColumns : totals[g] # 0} }

-----------------------------------------------------------------------------
(* SummaryCard: steps *)

requestSort(key) == sortConfig' = [key |-> key, direction |-> "desc"]

\* onClick of a sortable column header
HeaderClick ==
    /\ \E key \in SortKeys : requestSort(key)
    /\ UNCHANGED <<selectedDate, selection, selectedStatType, timesheet, pc,
                   timezoneOffset, items>>

(* A summary card of every item list, on a page without a calendar *)

SummaryInit ==
    /\ selectedDate = StartDate
    /\ selectedDay = Null
    /\ selectedRow = Null
    /\ selectedColumn = Null
    /\ isAllSelected = FALSE
    /\ selectedStatType = "consulting"
    /\ timesheet = [byDate |-> <<>>]
    /\ pc = "idle"
    /\ timezoneOffset = 0
    /\ items \in ItemLists
    /\ sortConfig = InitialSortConfig

SummaryNext == HeaderClick

SummarySpec == SummaryInit /\ [][SummaryNext]_vars

-----------------------------------------------------------------------------
(* Summary table *)

\* C13: sorting by a numeric key gives a permutation of the input items whose
\* values of that key (absent read as 0) never increase from one row to the
\* next, and items with equal values stay in their input order
C13_SortedDescendingStable ==
    sortConfig.key \in SortKeys \ {"name"} =>
        \A order \in {sortedOrder} : \A sorted \in {sortedItems} :
            /\ Len(order) = Len(items)
            /\ {order[i] : i \in 1..Len(order)} = 1..Len(items)
            /\ \A i \in 1..Len(sorted) : sorted[i] = items[order[i]]
            /\ \A i \in 1..(Len(sorted) - 1) :
                  /\ Field(sorted[i], sortConfig.key) >= Field(sorted[i + 1], sortConfig.key)
                  /\ Field(sorted[i], sortConfig.key) = Field(sorted[i + 1], sortConfig.key)
                        => order[i] < order[i + 1]

\* three items, two of them different and tied on the key, one ranked differently
C13_Witness ==
    /\ sortConfig.key \in SortKeys \ {"name", "total"}
    /\ \E i, j, k \in 1..Len(items) :
          /\ i < j
          /\ items[i] # items[j]
          /\ Field(items[i], sortConfig.key) = Field(items[j], sortConfig.key)
          /\ Field(items[k], sortConfig.key) > Field(items[i], sortConfig.key)
          /\ k > j

\* the share of the metric that row i adds to the cumulative fraction
RowDelta(rowItems, i) ==
    Minus(rowItems[i].cumulative,
          IF i > 1 THEN rowItems[i - 1].cumulative ELSE Number(0))

\* the sum of the deltas of the first k rows
RECURSIVE DeltaSum(_, _)
DeltaSum(rowItems, k) ==
    IF k = 0 THEN Number(0)
    ELSE Minus(DeltaSum(rowItems, k - 1), Minus(Number(0), RowDelta(rowItems, k)))

IsOne(x) == IsFinite(x) /\ x.num = x.den

\* C14 as stated: for every item list, the empty one and those whose metric
\* total is 0 included, and every sort key, the deltas of the cumulative
\* fraction sum to 1
C14_DeltasSumToOneAlways ==
    \A rowItems \in {cumulativeItems} : IsOne(DeltaSum(rowItems, Len(rowItems)))

\* C14, amended: for every non-empty item list whose metric total is not 0
\* and every sort key, the deltas of the cumulative fraction sum to 1 and
\* the last row's cumulative fraction is 1
C14_DeltasSumToOne ==
    (Len(items) > 0 /\ totals[metric] # 0) =>
        \A rowItems \in {cumulativeItems} :
            /\ IsOne(DeltaSum(rowItems, Len(rowItems)))
            /\ IsOne(rowItems[Len(rowItems)].cumulative)

\* sorted by name, so that total is the metric, with amounts of both signs
C14_Witness ==
    /\ sortConfig.key = "name"
    /\ Len(items) >= 2
    /\ totals.total # 0
    /\ \E i, j \in 1..Len(items) : items[i].total < 0 /\ items[j].total > 0

\* cumulative <= 0.8 as JavaScript decides it: 5 * num <= 4 * den for a
\* finite fraction, true for -Infinity, false for NaN and Infinity
AtMostFourFifths(x) ==
    \/ x.den > 0 /\ 5 * x.num <= 4 * x.den
    \/ x.den = 0 /\ x.num < 0

\* C15: a row gets a background shade if and only if the list has more than
\* 10 items and the row's cumulative fraction is at most 0.8; in a list of at
\* most 10 items no row is shaded, whatever the sort key
C15_HighlightPolicy ==
    \A rowItems \in {cumulativeItems} :
        /\ \A i \in 1..Len(rowItems) :
              backgroundColor(rowItems, i).rgb
                  <=> (Len(items) > 10 /\ AtMostFourFifths(rowItems[i].cumulative))
        /\ Len(items) <= 10 => \A i \in 1..Len(rowItems) : ~backgroundColor(rowItems, i).rgb

\* a list of more than 10 items, sorted by a fee, with a shaded row and an
\* unshaded row below it
C15_Witness ==
    /\ Len(items) > 10
    /\ sortConfig.key = "consultingFee"
    /\ \E rowItems \in {cumulativeItems} : \E i, j \in 1..Len(rowItems) :
          /\ i < j
          /\ backgroundColor(rowItems, i).rgb
          /\ ~backgroundColor(rowItems, j).rgb

\* C16: no percent of a row or of a column is rendered with a zero
\* denominator, neither in an item's cells nor in the Total row
C16_NoZeroDenominator ==
    /\ \A i \in 1..Len(items) : \A e \in itemPercents(items[i]) : e.denominator # 0
    /\ \A e \in totalRowPercents : e.denominator # 0

\* C17: the intensity of every shaded row is a shade between 0 and 255
C17_IntensityInRange ==
    \A rowItems \in {cumulativeItems} : \A i \in 1..Len(rowItems) :
        LET color == backgroundColor(rowItems, i)
        IN  color.rgb => IsFinite(color.intensity) /\ color.intensity.num \in 0..255
====
